---- MODULE Spec2Model ----
(***************************************************************************)
(* Model of the character controller of physics-character-controller-3d:  *)
(* CharacterController (src/src/character.js) driven by the jump key of   *)
(* InputHandler and by the physics capability (PhysicsWorld).             *)
(*                                                                         *)
(* Time is counted in ticks of 50 ms: jumpCooldown 0.2 s = 4 ticks,        *)
(* coyoteTime 0.15 s = 3 ticks, jumpBufferTime 0.15 s = 3 ticks, and the   *)
(* frame driver's deltaTime ceiling of 0.1 s = 2 ticks.  Directions,       *)
(* velocities, impulses and positions are fixed-point numbers in           *)
(* thousandths: the unit vector component 1.0 is 1000, 1/sqrt(2) is 707.   *)
(***************************************************************************)
EXTENDS Integers, Sequences, FiniteSets, TLC

\* ---------------------------------------------------------------- bounds
\* largest deltaTime (ticks) passed to update(); the frame driver clamps at 0.1 s
MaxDt == 2

\* largest timer value followed when deltaTime is negative
MaxTimer == 5

\* frames the body's vertical velocity is followed through between two rests
MaxFlight == 3

\* longest gap (ticks) between two animation frames
MaxGap == 4

\* ------------------------------------------------------ program constants
moveSpeed == 7
jumpForce == 15

\* option values the constructor is given (defaults: 4, 3, 3 ticks)
OptionSets ==
    {[jumpCooldown |-> 4, coyoteTime |-> 3, jumpBufferTime |-> 3],
     [jumpCooldown |-> 0, coyoteTime |-> 3, jumpBufferTime |-> 3],
     [jumpCooldown |-> 2, coyoteTime |-> 1, jumpBufferTime |-> 2]}

\* deltaTime values of an update
Deltas == 0..MaxDt
\* deltaTime values of an update whose caller does not keep them >= 0
AnyDeltas == -1..MaxDt
\* results of input.getMovementDirection() the model samples (unit or zero)
Dirs == {[x |-> 0, z |-> 0], [x |-> 0, z |-> -1000]}
\* values of body.linvel() the physics engine reports to an update
Vels == {[x |-> 0, y |-> 0, z |-> 0], [x |-> 0, y |-> -5000, z |-> -7000]}

Min(a, b) == IF a < b THEN a ELSE b

VARIABLES
    physics,     \* the physics backend the controller is built on
    noBodyCall,  \* the jump key at the last update() that found no body
    options,     \* this.options
    state,       \* this.state (CharacterState)
    character,   \* this.character: "body", "nobody" (a handle without .body) or "null"
    keys,        \* InputHandler.keys
    calls,       \* physics calls issued by the last update(), in order
    last,        \* what the last update() saw and did
    sinceFire,   \* sum of deltaTime since the last jump impulse, -1 if none yet
    fireGap,     \* at a fire: sum of deltaTime since the previous fire, -1 if none
    holdFires,   \* impulses applied during the current uninterrupted hold
    reqAge,      \* time since the live airborne jump request was pressed, -1 if none
    airTime,     \* time since the ground->air edge of this airborne episode, -1 if none
    airQuiet,    \* jump input not pressed since the last grounded update
    airFires,    \* impulses applied during this airborne episode
    jumpLive,    \* a jump has fired and no later update has probed grounded
    jumpAir,     \* a jump has fired and no update has ended grounded since
    bodyPos,     \* body.translation() of the character body
    posOut,      \* the last getPosition(): what it returned, where the body was
    snap,        \* the object the last getState() returned, as it is now
    snapShares,  \* snap.velocity and this.state.velocity are the same object
    sceneManager,\* InputHandler.sceneManager and its camera's yaw
    moveSeen,    \* the sum of the pressed axes at the last update()
    bodyVy,      \* body.linvel().y, the vertical velocity the engine holds
    airFrames,   \* frames since the body last rested on the ground
    app,         \* the Application: its variant, startup outcome and last frame
    pressFired,  \* an impulse has been applied since the last press edge
    spaceLog,    \* the last three of: Space "down", Space "up", "update"
    rapier,      \* rapier-init.js: rapierModule, the calls in flight, the last call
    world,       \* a PhysicsWorld driven through its own methods
    fallback,    \* a FallbackPhysicsWorld: its objects and its character
    camera       \* SceneManager.mouse, cameraSettings and the pointer

\* the observers of the jump logic
obs == <<sinceFire, fireGap, holdFires, reqAge, airTime, airQuiet, airFires,
         jumpLive, jumpAir>>

\* what getPosition() and getState() callers hold
view == <<bodyPos, posOut, snap, snapShares>>
pose == <<bodyPos, posOut>>

\* the variables of the components around the controller and of the
\* observers kept apart from obs
mods == <<rapier, world, fallback, camera>>
aux == <<pressFired, spaceLog, mods>>

vars == <<physics, noBodyCall, options, state, character, keys, calls, last,
          obs, view, sceneManager, moveSeen, bodyVy, airFrames, app, aux>>

hist == <<last, obs>>

\* ------------------------------------------------------- physics backends
\* PhysicsWorld before and after init(), and FallbackPhysicsWorld
Backends ==
    {[kind |-> "PhysicsWorld", initialized |-> TRUE],
     [kind |-> "PhysicsWorld", initialized |-> FALSE],
     [kind |-> "FallbackPhysicsWorld", initialized |-> TRUE]}

\* physics.createCharacter({x: 0, y: 5, z: 0}, 0.5, 1.0): PhysicsWorld returns
\* {id, body, collider}, or null before init(); FallbackPhysicsWorld returns
\* its character object, which has no body property
createCharacter(p) ==
    IF p.kind = "PhysicsWorld"
    THEN (IF p.initialized THEN "body" ELSE "null")
    ELSE "nobody"

Origin == [x |-> 0, y |-> 0, z |-> 0]
\* where the body starts (line 37) and another place the engine moves it to
SpawnPos == [x |-> 0, y |-> 5000, z |-> 0]
Positions == {SpawnPos, [x |-> 0, y |-> 1000, z |-> -2000]}

\* ------------------------------------------------------------ constructor
InitState ==
    [isGrounded |-> FALSE, isJumping |-> FALSE, jumpCooldownTimer |-> 0,
     coyoteTimeTimer |-> 0, jumpBufferTimer |-> 0,
     velocity |-> [x |-> 0, y |-> 0, z |-> 0],
     wasGrounded |-> FALSE, jumpRequested |-> FALSE]

\* before the first getPosition() and the first getState()
NoPos == [called |-> FALSE, ret |-> Origin, body |-> Origin]
NoSnap == [taken |-> FALSE, obj |-> InitState]

\* the Application before init(): no frame has run
NoFrame ==
    [ran |-> FALSE, stepDt |-> 0, updateDt |-> 0, log |-> <<>>,
     shown |-> Origin]

NewApp ==
    [variant |-> "none", pc |-> "constructed", rapier |-> "pending",
     fallbackBuilt |-> FALSE, isRunning |-> FALSE, built |-> <<>>,
     frame |-> NoFrame]

NoUpdate ==
    [ran |-> FALSE, pressed |-> FALSE, edge |-> FALSE, probe |-> FALSE,
     dir |-> [x |-> 0, z |-> 0], vy |-> 0, neg |-> FALSE,
     cdReady |-> FALSE, coyoteLive |-> FALSE, A |-> FALSE, B |-> FALSE]

\* PhysicsWorld after its constructor (part_002 lines 7-12): not
\* initialized, no bodies; engine counts the calls that reached Rapier
NewWorld ==
    [initialized |-> FALSE, pending |-> FALSE, bodies |-> <<>>,
     engine |-> [steps |-> 0, linvels |-> 0, impulses |-> 0, rays |-> 0],
     last |-> [fn |-> "none", body |-> "none", out |-> "none"]]

\* metres and metres per second of the fallback world as integers:
\* 1 m = 40000 units of position, 1 m/s = 2000 units of velocity, so that
\* a tick of 0.05 s adds the velocity units to the position units
PosUnit == 40000
VelUnit == 2000

\* FallbackPhysicsWorld after its constructor (part_005 lines 2-6)
NewFallback ==
    [objects |-> <<>>, y |-> 0, vy |-> 0, height |-> 0, isGrounded |-> FALSE,
     made |-> 0, clamped |-> FALSE, last |-> "none"]

\* SceneManager after its constructor (scene.js lines 24-50): targetYaw 0,
\* targetPitch pi/4, in thousandths of a radian; mouse at 0,0 and up
NewCamera ==
    [isDown |-> FALSE, x |-> 0, y |-> 0, px |-> 0, py |-> 0,
     targetYaw |-> 0, targetPitch |-> 785, heldX |-> 0, first |-> TRUE,
     events |-> 0]

Init ==
    /\ physics \in Backends
    /\ noBodyCall = "none"
    /\ options \in OptionSets
    /\ state = InitState
    /\ character = createCharacter(physics)
    /\ keys = [forward |-> FALSE, backward |-> FALSE, left |-> FALSE,
               right |-> FALSE, jump |-> FALSE]
    /\ sceneManager = [set |-> FALSE, yaw |-> 0]
    /\ moveSeen = [x |-> 0, z |-> 0]
    /\ bodyVy = 0
    /\ airFrames = 0
    /\ app = NewApp
    /\ pressFired = FALSE
    /\ spaceLog = <<>>
    /\ rapier = [module |-> FALSE, pending |-> 0, inits |-> 0, started |-> 0,
                 resolved |-> 0, failed |-> 0,
                 last |-> [fn |-> "none", out |-> "none"]]
    /\ world = NewWorld
    /\ fallback = NewFallback
    /\ camera = NewCamera
    /\ calls = <<>>
    /\ last = NoUpdate
    /\ sinceFire = -1
    /\ fireGap = -1
    /\ holdFires = 0
    /\ reqAge = -1
    /\ airTime = -1
    /\ airQuiet = FALSE
    /\ airFires = 0
    /\ jumpLive = FALSE
    /\ jumpAir = FALSE
    /\ bodyPos = SpawnPos
    /\ posOut = NoPos
    /\ snap = NoSnap
    /\ snapShares = FALSE

\* ------------------------------------------------------------ InputHandler
\* onKeyDown (lines 245-268), the case 'Space', on the program's variables
KeyDownPlain ==
    /\ keys' = [keys EXCEPT !.jump = TRUE]
    /\ UNCHANGED <<app, airFrames, bodyVy, sceneManager, moveSeen, physics,
                   noBodyCall, options, state, character, calls, hist, view>>

\* variant: the release of Space is not stored
KeyUpPlain_ignored ==
    /\ keys' = keys
    /\ UNCHANGED <<app, airFrames, bodyVy, sceneManager, moveSeen, physics,
                   noBodyCall, options, state, character, calls, hist, view>>

\* onKeyUp (lines 274-297), the case 'Space', on the program's variables
KeyUpPlain ==
    /\ keys' = [keys EXCEPT !.jump = FALSE]
    /\ UNCHANGED <<app, airFrames, bodyVy, sceneManager, moveSeen, physics,
                   noBodyCall, options, state, character, calls, hist, view>>

onKeyDown == KeyDownPlain /\ UNCHANGED aux

onKeyUp == KeyUpPlain /\ UNCHANGED aux

isJumping == keys.jump

\* ------------------------------------------------------- update(): timers
\* lines 52-55: remember the previous grounded value, store the probe result
Probe(s, probe) ==
    [s EXCEPT !.wasGrounded = s.isGrounded, !.isGrounded = probe]

\* variant: the coyote timer is set on the edge but never run down
TickCoyote_frozen(s, dt) ==
    IF s.wasGrounded /\ ~s.isGrounded
    THEN [s EXCEPT !.coyoteTimeTimer = options.coyoteTime]
    ELSE s

\* lines 58-62
TickCoyote(s, dt) ==
    IF s.wasGrounded /\ ~s.isGrounded
    THEN [s EXCEPT !.coyoteTimeTimer = options.coyoteTime]
    ELSE IF s.coyoteTimeTimer > 0
         THEN [s EXCEPT !.coyoteTimeTimer = s.coyoteTimeTimer - dt]
         ELSE s

\* variant: the cooldown is never run down
TickCooldown_stuck(s, dt) == s

\* variant: the cooldown runs down one tick too fast
TickCooldown_fast(s, dt) ==
    IF s.jumpCooldownTimer > 0
    THEN [s EXCEPT !.jumpCooldownTimer = s.jumpCooldownTimer - dt - 1]
    ELSE s

\* lines 65-67
TickCooldown(s, dt) ==
    IF s.jumpCooldownTimer > 0
    THEN [s EXCEPT !.jumpCooldownTimer = s.jumpCooldownTimer - dt]
    ELSE s

\* variant: the buffer timer is never run down
TickBuffer_frozen(s, dt) == s

\* lines 70-72
TickBuffer(s, dt) ==
    IF s.jumpBufferTimer > 0
    THEN [s EXCEPT !.jumpBufferTimer = s.jumpBufferTimer - dt]
    ELSE s

\* lines 75-80
ReadVelocity(s, v) == [s EXCEPT !.velocity = v]

\* --------------------------------------------------------- handleMovement
\* variant: the movement write zeroes the vertical component
TargetVelocity_flat(s, dir) ==
    [x |-> dir.x * moveSpeed, y |-> 0, z |-> dir.z * moveSpeed]

\* lines 106-110
TargetVelocity(s, dir) ==
    [x |-> dir.x * moveSpeed, y |-> s.velocity.y, z |-> dir.z * moveSpeed]

\* ------------------------------------------------------------- handleJump
\* variant: the press latches the request but never arms the buffer
RequestJump_noBuffer(s, jumpPressed) ==
    IF jumpPressed /\ ~s.jumpRequested
    THEN [s EXCEPT !.jumpRequested = TRUE]
    ELSE s

\* lines 126-134
RequestJump(s, jumpPressed) ==
    IF jumpPressed /\ ~s.jumpRequested
    THEN IF ~s.isGrounded /\ s.coyoteTimeTimer <= 0
         THEN [s EXCEPT !.jumpRequested = TRUE,
                        !.jumpBufferTimer = options.jumpBufferTime]
         ELSE [s EXCEPT !.jumpRequested = TRUE]
    ELSE s

\* variant: the request outlives the release of the key
ReleaseJump_never(s, jumpPressed) == s

\* lines 137-139
ReleaseJump(s, jumpPressed) ==
    IF ~jumpPressed THEN [s EXCEPT !.jumpRequested = FALSE] ELSE s

\* lines 145-147
CondA(s) ==
    /\ s.jumpRequested
    /\ (s.isGrounded \/ s.coyoteTimeTimer > 0)
    /\ s.jumpCooldownTimer <= 0

\* variant: the immediate fire leaves the coyote timer running
FireA_keepsCoyote(s) ==
    [s EXCEPT !.isJumping = TRUE, !.isGrounded = FALSE,
              !.jumpCooldownTimer = options.jumpCooldown,
              !.jumpRequested = FALSE]

\* variant: the immediate fire leaves the grounded flag set
FireA_keepsGrounded(s) ==
    [s EXCEPT !.isJumping = TRUE,
              !.coyoteTimeTimer = 0,
              !.jumpCooldownTimer = options.jumpCooldown,
              !.jumpRequested = FALSE]

\* lines 157-161
FireA(s) ==
    [s EXCEPT !.isJumping = TRUE, !.isGrounded = FALSE,
              !.coyoteTimeTimer = 0,
              !.jumpCooldownTimer = options.jumpCooldown,
              !.jumpRequested = FALSE]

\* lines 167-168
CondB(s) ==
    /\ s.jumpBufferTimer > 0
    /\ s.isGrounded
    /\ s.jumpCooldownTimer <= 0

\* lines 178-180
FireB(s) ==
    [s EXCEPT !.isJumping = TRUE, !.jumpBufferTimer = 0,
              !.jumpCooldownTimer = options.jumpCooldown]

\* variant: the landing reset is missing
Landing_never(s) == s

\* lines 186-188
Landing(s) ==
    IF s.isGrounded /\ s.isJumping THEN [s EXCEPT !.isJumping = FALSE] ELSE s

JumpImpulse ==
    [op |-> "applyImpulse", v |-> [x |-> 0, y |-> jumpForce * 1000, z |-> 0]]

\* the impulses among the physics calls of the last update
Impulses == SelectSeq(calls, LAMBDA c : c.op = "applyImpulse")

\* ---------------------------------------------------------------- update
\* update(input, deltaTime) with a body, lines 52-86, as the values it passes
\* through: probe is physics.isGrounded(body), dir is
\* input.getMovementDirection(), vel is body.linvel(), jumpPressed is
\* input.isJumping()
Frame(s, jumpPressed, dt, probe, dir, vel) ==
    LET s1 == Probe(s, probe)
        s2 == TickBuffer(TickCooldown(TickCoyote(s1, dt), dt), dt)
        s3 == ReadVelocity(s2, vel)
        s4 == ReleaseJump(RequestJump(s3, jumpPressed), jumpPressed)
        a  == CondA(s4)
        s5 == IF a THEN FireA(s4) ELSE s4
        b  == CondB(s5)
        s6 == IF b THEN FireB(s5) ELSE s5
    IN [ticked |-> s3, requested |-> s4, A |-> a, B |-> b,
        target |-> TargetVelocity(s3, dir), final |-> Landing(s6),
        n |-> (IF a THEN 1 ELSE 0) + (IF b THEN 1 ELSE 0)]

\* variant: handleJump runs before handleMovement
PhysicsCalls_jumpFirst(f) ==
    (IF f.A THEN <<JumpImpulse>> ELSE <<>>)
    \o (IF f.B THEN <<JumpImpulse>> ELSE <<>>)
    \o <<[op |-> "setBodyVelocity", v |-> f.target]>>

\* the calls update() makes on the physics capability, in order: line 113
\* in handleMovement (line 83), then lines 150 and 171 in handleJump (line 86)
PhysicsCalls(f) ==
    <<[op |-> "setBodyVelocity", v |-> f.target]>>
    \o (IF f.A THEN <<JumpImpulse>> ELSE <<>>)
    \o (IF f.B THEN <<JumpImpulse>> ELSE <<>>)

\* the program's part of update(): this.state and the physics calls, with the
\* record of what the update saw
UpdatePlain(dt, probe, dir, vel) ==
    \E f \in {Frame(state, isJumping, dt, probe, dir, vel)} :
    /\ state' = f.final
    /\ calls' = PhysicsCalls(f)
    /\ last' = [ran |-> TRUE, pressed |-> isJumping,
                edge |-> isJumping /\ ~last.pressed,
                probe |-> probe, dir |-> dir, vy |-> vel.y, neg |-> dt < 0,
                cdReady |-> f.requested.jumpCooldownTimer <= 0,
                coyoteLive |-> f.requested.coyoteTimeTimer > 0,
                A |-> f.A, B |-> f.B]
    /\ snapShares' = FALSE      \* line 76 gives this.state a new velocity object
    /\ UNCHANGED <<sceneManager, physics, noBodyCall, options, character, keys,
                   snap>>

\* the observers' part of update()
Observe(dt, probe, dir, vel) ==
    \E f \in {Frame(state, isJumping, dt, probe, dir, vel)} :
    LET n == f.n
        edge == isJumping /\ ~last.pressed
        elapsed == IF sinceFire < 0 THEN -1
                   ELSE Min(sinceFire + dt, options.jumpCooldown)
    IN
    /\ sinceFire' = IF n > 0 THEN 0 ELSE elapsed
    /\ fireGap' = IF n > 0 THEN elapsed ELSE -1
    /\ holdFires' = IF isJumping THEN Min(holdFires + n, 2) ELSE 0
    /\ reqAge' = IF edge
                 THEN (IF ~probe /\ f.ticked.coyoteTimeTimer <= 0 THEN 0 ELSE -1)
                 ELSE IF reqAge < 0 \/ last.probe THEN -1
                 ELSE Min(reqAge + dt, options.jumpBufferTime)
    /\ airTime' = IF probe THEN -1
                  ELSE IF state.isGrounded THEN 0
                  ELSE IF airTime < 0 THEN -1
                  ELSE Min(airTime + dt, options.coyoteTime)
    /\ airQuiet' = IF probe THEN FALSE
                   ELSE IF state.isGrounded THEN ~last.pressed
                   ELSE airQuiet /\ ~last.pressed
    /\ airFires' = IF probe THEN 0 ELSE Min(airFires + n, 2)
    /\ jumpLive' = (n > 0 \/ (jumpLive /\ ~probe))
    /\ jumpAir' = (~f.final.isGrounded /\ (n > 0 \/ jumpAir))

UpdateBody(dt, probe, dir, vel) ==
    /\ UpdatePlain(dt, probe, dir, vel)
    /\ Observe(dt, probe, dir, vel)

\* variant: the jump key is sampled before the body is looked at
UpdateNoBody_samples ==
    /\ calls' = <<>>
    /\ last' = [NoUpdate EXCEPT !.pressed = last.pressed]
    /\ noBodyCall' = IF isJumping THEN "pressed" ELSE "released"
    /\ state' = [state EXCEPT !.jumpRequested = isJumping]
    /\ UNCHANGED <<sceneManager, physics, options, character, keys, snap,
                   snapShares>>

\* line 49: without a body update() returns at once
UpdateNoBody ==
    /\ calls' = <<>>
    /\ last' = [NoUpdate EXCEPT !.pressed = last.pressed]
    /\ noBodyCall' = IF isJumping THEN "pressed" ELSE "released"
    /\ UNCHANGED <<sceneManager, physics, options, state, character, keys,
                   snap, snapShares>>

update ==
    \E dt \in Deltas, probe \in BOOLEAN, dir \in Dirs, vel \in Vels :
        /\ IF character = "body" THEN UpdateBody(dt, probe, dir, vel)
           ELSE UpdateNoBody /\ UNCHANGED obs
        /\ UNCHANGED <<moveSeen, bodyVy, airFrames, pose, app, aux>>

Next == onKeyDown \/ onKeyUp \/ update

Spec == Init /\ [][Next]_vars

\* ------------------------------------------------- update, any deltaTime
\* update(input, deltaTime) where deltaTime may be negative; the observers of
\* the jump logic are not followed
updateAnyDt ==
    \E dt \in AnyDeltas, probe \in BOOLEAN, dir \in Dirs, vel \in Vels :
        /\ dt < 0 => /\ state.jumpCooldownTimer < MaxTimer
                      /\ state.coyoteTimeTimer < MaxTimer
                      /\ state.jumpBufferTimer < MaxTimer
        /\ IF character = "body" THEN UpdatePlain(dt, probe, dir, vel)
           ELSE UpdateNoBody
        /\ UNCHANGED <<obs, moveSeen, bodyVy, airFrames, pose, app, aux>>

\* ------------------------------------------- update at one tick, forward
\* update(input, deltaTime) at a deltaTime of one tick with the forward key
\* held; the observers of the jump logic are not followed
updateBrief ==
    \E probe \in BOOLEAN, vel \in Vels :
        /\ IF character = "body"
           THEN UpdatePlain(1, probe, [x |-> 0, z |-> -1000], vel)
           ELSE UpdateNoBody
        /\ UNCHANGED <<obs, moveSeen, bodyVy, airFrames, pose, app, aux>>

\* physics.step(deltaTime), lines 160-165 of PhysicsWorld: the engine moves
\* the body
step ==
    /\ physics.initialized
    /\ character = "body"
    /\ bodyPos' \in Positions \ {bodyPos}
    /\ UNCHANGED <<aux, app, airFrames, bodyVy, sceneManager, moveSeen, physics, noBodyCall, options, state,
                   character, keys, calls, hist, posOut, snap, snapShares>>

\* ------------------------------------------------------------ getPosition
\* PhysicsWorld.getBodyPosition(body), lines 170-175
getBodyPosition(body, translation) ==
    IF body = "null" THEN Origin ELSE translation

\* variant: the body check of getPosition() is missing
PositionOf_unchecked(c, translation) == getBodyPosition("body", translation)

\* CharacterController.getPosition(), lines 195-201
PositionOf(c, translation) ==
    IF c # "body" THEN Origin ELSE getBodyPosition("body", translation)

getPosition ==
    /\ posOut' = [called |-> TRUE, ret |-> PositionOf(character, bodyPos),
                  body |-> bodyPos]
    /\ UNCHANGED <<aux, app, airFrames, bodyVy, sceneManager, moveSeen, physics, noBodyCall, options, state,
                   character, keys, calls, hist, bodyPos, snap, snapShares>>

NextPos == onKeyDown \/ onKeyUp \/ updateBrief \/ step \/ getPosition

SpecPos == Init /\ [][NextPos]_vars

\* --------------------------------------------------------------- getState
\* getState(), lines 207-209: { ...this.state } copies the fields of
\* this.state; the velocity field of the copy is the same object as
\* this.state.velocity
getState ==
    /\ snap' = [taken |-> TRUE, obj |-> state]
    /\ snapShares' = TRUE
    /\ UNCHANGED <<aux, app, airFrames, bodyVy, sceneManager, moveSeen, physics, noBodyCall, options, state,
                   character, keys, calls, hist, bodyPos, posOut>>

\* the caller assigns to a field of the returned object
tamperField ==
    /\ snap.taken
    /\ snap' = [snap EXCEPT !.obj.isJumping = ~@]
    /\ UNCHANGED <<aux, app, airFrames, bodyVy, sceneManager, moveSeen, physics, noBodyCall, options, state,
                   character, keys, calls, hist, bodyPos, posOut, snapShares>>

\* the caller assigns to a component of the returned object's velocity
tamperVelocity ==
    /\ snap.taken
    /\ snap.obj.velocity.x # 99
    /\ snap' = [snap EXCEPT !.obj.velocity.x = 99]
    /\ state' = IF snapShares THEN [state EXCEPT !.velocity.x = 99] ELSE state
    /\ UNCHANGED <<aux, app, airFrames, bodyVy, sceneManager, moveSeen, physics, noBodyCall, options,
                   character, keys, calls, hist, bodyPos, posOut, snapShares>>

NextSnap ==
    onKeyDown \/ onKeyUp \/ updateBrief \/ getState \/ tamperField
        \/ tamperVelocity

SpecSnap == Init /\ [][NextSnap]_vars

NextAnyDt == onKeyDown \/ onKeyUp \/ updateAnyDt

SpecAnyDt == Init /\ [][NextAnyDt]_vars

\* ------------------------------------------------------- movement direction
\* InputHandler, the W, S, A and D cases of onKeyDown (lines 252-263)
MoveKeys == {"forward", "backward", "left", "right"}

onMoveKeyDown ==
    /\ \E k \in MoveKeys : keys' = [keys EXCEPT ![k] = TRUE]
    /\ UNCHANGED <<aux, app, airFrames, bodyVy, sceneManager, moveSeen, physics, noBodyCall, options, state,
                   character, calls, hist, view>>

\* the W, S, A and D cases of onKeyUp (lines 281-292)
onMoveKeyUp ==
    /\ \E k \in MoveKeys : keys' = [keys EXCEPT ![k] = FALSE]
    /\ UNCHANGED <<aux, app, airFrames, bodyVy, sceneManager, moveSeen, physics, noBodyCall, options, state,
                   character, calls, hist, view>>

\* the camera's yaw in eighths of a turn: straight, 45 degrees, 90 degrees
Yaws == {0, 1, 2}

\* setSceneManager (lines 237-239) and the orbiting of the camera by the
\* mouse (scene.js lines 87-97, 231-256)
setSceneManager ==
    /\ \E yaw \in Yaws : sceneManager' = [set |-> TRUE, yaw |-> yaw]
    /\ sceneManager' # sceneManager
    /\ UNCHANGED <<aux, app, airFrames, bodyVy, moveSeen, physics, noBodyCall, options, state,
                   character, keys, calls, hist, view>>

\* scene.js lines 304-310: (0, 0, -1) turned by the camera, flattened and
\* normalised; the camera sits at (sin yaw, ., cos yaw) and looks inward
getCameraForwardDirection(yaw) ==
    CASE yaw = 0 -> [x |-> 0, z |-> -1000]
      [] yaw = 1 -> [x |-> -707, z |-> -707]
      [] yaw = 2 -> [x |-> -1000, z |-> 0]

\* scene.js lines 316-322: (1, 0, 0) turned by the camera
getCameraRightDirection(yaw) ==
    CASE yaw = 0 -> [x |-> 1000, z |-> 0]
      [] yaw = 1 -> [x |-> 707, z |-> -707]
      [] yaw = 2 -> [x |-> 0, z |-> -1000]

\* lines 304-334: the sum of the pressed axes, before normalisation
RawDirection(k, sm) ==
    LET forward == IF sm.set THEN getCameraForwardDirection(sm.yaw)
                   ELSE [x |-> 0, z |-> -1000]
        right   == IF sm.set THEN getCameraRightDirection(sm.yaw)
                   ELSE [x |-> 1000, z |-> 0]
        f == (IF k.forward THEN 1 ELSE 0) - (IF k.backward THEN 1 ELSE 0)
        r == (IF k.right THEN 1 ELSE 0) - (IF k.left THEN 1 ELSE 0)
    IN  [x |-> f * forward.x + r * right.x, z |-> f * forward.z + r * right.z]

\* variant: the root is not taken
ISqrt_square(n) == n

\* the largest r in lo..hi with r * r <= n, by bisection
RECURSIVE RootBetween(_, _, _)
RootBetween(n, lo, hi) ==
    IF lo = hi THEN lo
    ELSE LET mid == (lo + hi + 1) \div 2
         IN  IF mid * mid <= n THEN RootBetween(n, mid, hi)
             ELSE RootBetween(n, lo, mid - 1)

\* Math.sqrt in thousandths, rounded down
ISqrt(n) == RootBetween(n, 0, 3000)

\* division of fixed-point numbers, rounded towards zero
Quot(a, b) == IF a >= 0 THEN (a * 1000) \div b ELSE -((-a * 1000) \div b)

getMovementDirection_raw(k, sm) == RawDirection(k, sm)

\* lines 303-344
getMovementDirection(k, sm) ==
    LET direction == RawDirection(k, sm)
        length == ISqrt(direction.x * direction.x + direction.z * direction.z)
    IN  IF length > 0
        THEN [x |-> Quot(direction.x, length), z |-> Quot(direction.z, length)]
        ELSE direction

\* update(), one tick, with the direction the InputHandler computes
updateMove ==
    \E probe \in BOOLEAN, vel \in Vels :
        /\ IF character = "body"
           THEN /\ UpdatePlain(1, probe,
                               getMovementDirection(keys, sceneManager), vel)
                /\ moveSeen' = RawDirection(keys, sceneManager)
           ELSE UpdateNoBody /\ UNCHANGED moveSeen
        /\ UNCHANGED <<obs, bodyVy, airFrames, pose, app, aux>>

NextMove ==
    onMoveKeyDown \/ onMoveKeyUp \/ setSceneManager \/ updateMove

SpecMove == Init /\ [][NextMove]_vars

\* --------------------------------------------------- the body's velocity
\* the capsule of PhysicsWorld.createCharacter (lines 75-76): half height
\* 0.5, radius 0.5, the engine's unit density; its mass in thousandths
characterMass == 1309

\* PhysicsWorld.gravity.y (line 11), in thousandths
gravityY == -9810

\* PhysicsWorld.applyImpulse (lines 193-197): body.applyImpulse adds
\* impulse / mass to the linear velocity
applyImpulse(vy, impulse) == vy + (impulse.y * 1000) \div characterMass

RECURSIVE applyImpulses(_, _)
applyImpulses(vy, n) ==
    IF n = 0 THEN vy ELSE applyImpulses(applyImpulse(vy, JumpImpulse.v), n - 1)

\* physics.step(deltaTime), lines 160-165 of PhysicsWorld, seen from the
\* body: gravity acts for deltaTime (ticks of 1/20 s), and a contact with
\* the ground stops a body that would move downwards
stepVelocity(vy, dt, contact) ==
    LET fallen == vy + (gravityY * dt) \div 20
    IN  IF contact /\ fallen <= 0 THEN 0 ELSE fallen

\* one frame of Application.gameLoop (lines 103-129) at the deltaTime
\* ceiling: physics.step, then update() on the body itself: line 75 reads
\* body.linvel(), line 113 writes the target velocity back, lines 150 and
\* 171 apply the impulses
gameLoop ==
    \E probe \in BOOLEAN, dir \in Dirs, contact \in BOOLEAN :
        /\ IF character = "body"
           THEN LET vy == stepVelocity(bodyVy, MaxDt, contact)
                    vel == [x |-> 0, y |-> vy, z |-> 0]
                    f == Frame(state, isJumping, MaxDt, probe, dir, vel)
                    rests == contact /\ vy = 0 /\ f.n = 0
                IN  /\ rests \/ airFrames < MaxFlight
                    /\ UpdatePlain(MaxDt, probe, dir, vel)
                    /\ bodyVy' = applyImpulses(f.target.y, f.n)
                    /\ airFrames' = IF rests THEN 0 ELSE airFrames + 1
           ELSE UpdateNoBody /\ UNCHANGED <<bodyVy, airFrames>>
        /\ UNCHANGED <<obs, moveSeen, pose, app, aux>>

NextVy == onKeyDown \/ onKeyUp \/ gameLoop

SpecVy == Init /\ [][NextVy]_vars

\* ------------------------------------------------------------ Application
\* the three Applications of the repository: main.js lines 9-146 (deltaTime
\* ceiling, no fallback), main.js lines 164-238 (neither) and the one with
\* the fallback backend (part_003)
Variants == {"main", "mainUnclamped", "mainFallback"}

\* the options of a controller built without options (lines 14-21)
DefaultOptions == [jumpCooldown |-> 4, coyoteTime |-> 3, jumpBufferTime |-> 3]

\* variant: the fallback is built whatever PhysicsWorld.init() did
SelectBackend_always(variant, rapierOk) ==
    [ok |-> TRUE, fallbackBuilt |-> TRUE,
     physics |-> [kind |-> "FallbackPhysicsWorld", initialized |-> TRUE]]

\* variant: init() goes on after a failed physics.init()
SelectBackend_unchecked(variant, rapierOk) ==
    [ok |-> TRUE, fallbackBuilt |-> FALSE,
     physics |-> [kind |-> "PhysicsWorld", initialized |-> rapierOk]]

\* Application.init, the choice of the backend: lines 28-37 of part_003,
\* line 44 of main.js.  PhysicsWorld.init() sets initialized after
\* RAPIER.init() and the World are there, or rejects
SelectBackend(variant, rapierOk) ==
    IF rapierOk
    THEN [ok |-> TRUE, fallbackBuilt |-> FALSE,
          physics |-> [kind |-> "PhysicsWorld", initialized |-> TRUE]]
    ELSE IF variant = "mainFallback"
    THEN [ok |-> TRUE, fallbackBuilt |-> TRUE,
          physics |-> [kind |-> "FallbackPhysicsWorld", initialized |-> TRUE]]
    ELSE [ok |-> FALSE, fallbackBuilt |-> FALSE,
          physics |-> [kind |-> "PhysicsWorld", initialized |-> FALSE]]

\* what init() has completed when it sets isRunning: part_003 lines 38-46,
\* main.js lines 44-58; the Application of main.js lines 164-238 creates no
\* platforms (lines 195-209)
BuiltBy(variant) ==
    IF variant = "mainUnclamped"
    THEN <<"physics", "ground", "character">>
    ELSE <<"physics", "ground", "character", "platforms">>

\* Application.init(): backend, ground, controller, platforms, first
\* requestAnimationFrame; in main.js a rejected physics.init() ends init()
init ==
    /\ app.pc = "constructed"
    /\ \E variant \in Variants, rapierOk \in BOOLEAN :
        LET sel == SelectBackend(variant, rapierOk)
        IN  /\ physics' = sel.physics
            /\ IF sel.ok
               THEN /\ character' = createCharacter(sel.physics)
                    /\ options' = DefaultOptions
                    /\ state' = InitState
               ELSE /\ character' = "null"
                    /\ UNCHANGED <<options, state>>
            /\ app' = [app EXCEPT !.variant = variant,
                                  !.pc = IF sel.ok THEN "running" ELSE "failed",
                                  !.rapier = IF rapierOk THEN "ok" ELSE "failed",
                                  !.fallbackBuilt = sel.fallbackBuilt,
                                  !.isRunning = sel.ok,
                                  !.built = IF sel.ok THEN BuiltBy(variant)
                                            ELSE <<>>]
    /\ UNCHANGED <<aux, airFrames, bodyVy, sceneManager, moveSeen, noBodyCall, keys,
                   calls, hist, view>>

\* variant: no ceiling
FrameDelta_raw(variant, gap) == gap

\* gameLoop, the deltaTime of a frame whose timestamp is gap ticks after
\* the last one: Math.min(gap, 0.1) in main.js line 99 and part_003 line
\* 105, the bare difference in main.js line 215
FrameDelta(variant, gap) ==
    IF variant = "mainUnclamped" THEN gap ELSE Min(gap, MaxDt)

\* variant: the position is read before the frame's physics step
FramePosition_stale(c, before, after) == PositionOf(c, before)

\* gameLoop: the position read by getPosition() after step and update
FramePosition(c, before, after) == PositionOf(c, after)

\* one call of Application.gameLoop (lines 103-129 of part_003, 95-144 and
\* 211-236 of main.js): step, update, getPosition, mesh and camera, render
gameLoopFrame ==
    /\ app.isRunning
    /\ \E gap \in 0..MaxGap, probe \in BOOLEAN, pos \in Positions :
        LET deltaTime == FrameDelta(app.variant, gap)
            dir == [x |-> 0, z |-> -1000]
            vel == [x |-> 0, y |-> 0, z |-> 0]
            moved == IF physics.kind = "PhysicsWorld" /\ character = "body"
                     THEN pos ELSE bodyPos
            characterPosition == FramePosition(character, bodyPos, moved)
        IN  /\ bodyPos' = moved
            /\ IF character = "body"
               THEN UpdatePlain(deltaTime, probe, dir, vel)
               ELSE UpdateNoBody
            /\ posOut' = [called |-> TRUE, ret |-> characterPosition,
                          body |-> moved]
            /\ app' = [app EXCEPT !.frame =
                   [ran |-> TRUE, stepDt |-> deltaTime,
                    updateDt |-> deltaTime,
                    log |-> <<"step", "update", "getPosition",
                              "updateMeshPosition", "render">>,
                    shown |-> characterPosition]]
    /\ UNCHANGED <<obs, moveSeen, bodyVy, airFrames, aux>>

NextApp == onKeyDown \/ onKeyUp \/ init \/ gameLoopFrame

SpecApp == Init /\ [][NextApp]_vars

\* ------------------------------------------ update, positive deltaTime
\* update(input, deltaTime) as the clamping frame drivers call it once time
\* has passed: deltaTime in (0, 0.1]
updatePositiveDt ==
    \E dt \in 1..MaxDt, probe \in BOOLEAN, dir \in Dirs, vel \in Vels :
        /\ IF character = "body" THEN UpdateBody(dt, probe, dir, vel)
           ELSE UpdateNoBody /\ UNCHANGED obs
        /\ UNCHANGED <<moveSeen, bodyVy, airFrames, pose, app, aux>>

NextAir == onKeyDown \/ onKeyUp \/ updatePositiveDt

SpecAir == Init /\ [][NextAir]_vars

\* ------------------------------------- update, impulses per press followed
\* update(input, deltaTime) with deltaTime in (0, 0.1]; pressFired follows
\* whether an impulse has been applied since the jump key last went from
\* released to pressed between two updates
updateByPress ==
    \E dt \in 1..MaxDt, probe \in BOOLEAN, dir \in Dirs, vel \in Vels :
        /\ IF character = "body"
           THEN LET f == Frame(state, isJumping, dt, probe, dir, vel)
                    edge == isJumping /\ ~last.pressed
                IN  /\ UpdatePlain(dt, probe, dir, vel)
                    /\ pressFired' = IF edge THEN f.n > 0
                                     ELSE (pressFired \/ f.n > 0)
           ELSE UpdateNoBody /\ UNCHANGED <<pressFired, mods>>
        /\ UNCHANGED <<obs, moveSeen, bodyVy, airFrames, pose, app, spaceLog, mods>>

NextPress == onKeyDown \/ onKeyUp \/ updateByPress

SpecPress == Init /\ [][NextPress]_vars

\* ---------------------------------------- key events and updates, logged
\* the last three events, the newest last
Logged(log, e) ==
    LET all == Append(log, e)
    IN  IF Len(all) > 3 THEN Tail(all) ELSE all

onKeyDownLogged ==
    KeyDownPlain /\ spaceLog' = Logged(spaceLog, "down") /\ UNCHANGED <<pressFired, mods>>

onKeyUpLogged ==
    KeyUpPlain /\ spaceLog' = Logged(spaceLog, "up") /\ UNCHANGED <<pressFired, mods>>

\* update(input, deltaTime) with deltaTime in (0, 0.1]
updateLogged ==
    \E dt \in 1..MaxDt, probe \in BOOLEAN, dir \in Dirs, vel \in Vels :
        /\ IF character = "body" THEN UpdatePlain(dt, probe, dir, vel)
           ELSE UpdateNoBody
        /\ spaceLog' = Logged(spaceLog, "update")
        /\ UNCHANGED <<obs, moveSeen, bodyVy, airFrames, pose, app, pressFired, mods>>

NextKeys == onKeyDownLogged \/ onKeyUpLogged \/ updateLogged

SpecKeys == Init /\ [][NextKeys]_vars

\* ======================================================================
\* Properties
\* ======================================================================

\* C1: while the jump input is held across updates without a release, at
\* most one jump impulse is applied for that press.
C1_HeldKeyFiresOnce == holdFires <= 1

\* C2: a single update() applies at most one jump impulse; when the
\* immediate fire applies one, the buffered fire does not fire as well.
C2_AtMostOneImpulse ==
    /\ Len(Impulses) <= 1
    /\ ~(last.A /\ last.B)

\* an immediate fire on a grounded probe with the buffer still running and a
\* zero cooldown: only the cleared grounded flag keeps the buffered fire out
C2_Witness ==
    /\ last.A /\ last.probe
    /\ state.jumpBufferTimer > 0
    /\ options.jumpCooldown = 0

\* C3: after a jump fires, no jump impulse is applied until the deltaTime
\* passed to update() since that fire sums to at least jumpCooldown.
C3_CooldownEnforced ==
    (last.A \/ last.B) /\ fireGap # -1 => fireGap >= options.jumpCooldown

\* a grounded, requested jump that the running cooldown keeps from firing
C3_Witness ==
    /\ last.ran /\ last.probe /\ state.jumpRequested
    /\ sinceFire # -1 /\ sinceFire < options.jumpCooldown
    /\ Impulses = <<>>

\* C4: once a fire event sets isJumping, getState().isJumping is true after
\* that update and after every later one until a probe reports grounded.
C4_IsJumpingUntilGrounded == jumpLive => state.isJumping

\* C5: after every update() the three timers are each >= 0.
C5_TimersNonNegative ==
    /\ state.jumpCooldownTimer >= 0
    /\ state.coyoteTimeTimer >= 0
    /\ state.jumpBufferTimer >= 0

\* C6: a press made airborne and outside coyote time applies no impulse in
\* that update; when the input is released and the first grounded probe comes
\* less than jumpBufferTime after the press, with the cooldown elapsed, that
\* update applies exactly one impulse, by the buffered fire.
C6_BufferedJumpFiresOnLanding ==
    /\ (last.edge /\ reqAge = 0 => Impulses = <<>>)
    /\ ((reqAge # -1 /\ reqAge < options.jumpBufferTime
         /\ last.probe /\ ~last.pressed /\ last.cdReady)
            => Impulses = <<JumpImpulse>> /\ last.B /\ ~last.A)

\* a released request that lands some time after the press, inside the window
C6_Witness ==
    /\ reqAge > 0 /\ reqAge < options.jumpBufferTime
    /\ last.probe /\ ~last.pressed /\ last.cdReady
    /\ last.B

\* C7 as stated: once jumpBufferTime has elapsed ungrounded since an airborne
\* press, landing applies no impulse in any continuation without a new press
\* edge.
C7_LateLandingNeverFires ==
    reqAge # -1 /\ reqAge >= options.jumpBufferTime /\ last.probe
        => Impulses = <<>>

\* C7 amended: ... landing applies no impulse when the jump input is not
\* pressed in the landing update.
C7_LateLandingReleasedNoFire ==
    reqAge # -1 /\ reqAge >= options.jumpBufferTime /\ last.probe /\ ~last.pressed
        => Impulses = <<>>

\* a released request landing after the window with the cooldown elapsed
C7_Witness ==
    /\ reqAge # -1 /\ reqAge >= options.jumpBufferTime
    /\ last.probe /\ ~last.pressed /\ last.cdReady
    /\ Impulses = <<>>

\* C8: grounded after update N, airborne from N+1 on, first press at update
\* N+1+k with the cooldown elapsed: the update fires exactly when the time
\* since update N+1 is below coyoteTime, and the airborne episode fires at
\* most once.
C8_CoyoteWindow ==
    /\ (airTime # -1 /\ airQuiet /\ last.edge /\ last.cdReady
            => IF airTime < options.coyoteTime
               THEN Impulses = <<JumpImpulse>> /\ last.A
               ELSE Impulses = <<>>)
    /\ (airTime # -1 => airFires <= 1)

\* a first press some time after leaving the ground, inside the window
C8_Witness ==
    /\ airTime > 0 /\ airTime < options.coyoteTime
    /\ airQuiet /\ last.edge /\ last.cdReady
    /\ last.A

\* C9: an update whose buffered fire triggers applies one impulse
\* (0, jumpForce, 0) and ends with isJumping, not grounded, coyoteTimeTimer 0,
\* jumpCooldownTimer = jumpCooldown, jumpRequested false, jumpBufferTimer 0.
C9_BufferedFireApplication ==
    last.B =>
        /\ Impulses = <<JumpImpulse>>
        /\ state.isJumping
        /\ ~state.isGrounded
        /\ state.coyoteTimeTimer = 0
        /\ state.jumpCooldownTimer = options.jumpCooldown
        /\ ~state.jumpRequested
        /\ state.jumpBufferTimer = 0

\* C10: an update with a fresh press, a grounded probe or a running coyote
\* timer, and the cooldown elapsed applies exactly one impulse
\* (0, jumpForce, 0) and ends with isJumping, not grounded, coyoteTimeTimer 0,
\* jumpCooldownTimer = jumpCooldown and jumpRequested false.
C10_ImmediateFireApplication ==
    last.edge /\ (last.probe \/ last.coyoteLive) /\ last.cdReady =>
        /\ Impulses = <<JumpImpulse>>
        /\ state.isJumping
        /\ ~state.isGrounded
        /\ state.coyoteTimeTimer = 0
        /\ state.jumpCooldownTimer = options.jumpCooldown
        /\ ~state.jumpRequested

\* a fresh press on a grounded probe that fired
C10_Witness ==
    /\ last.edge /\ last.probe /\ last.cdReady
    /\ last.A /\ state.isJumping

\* C11: jumpRequested goes from false to true only in an update whose jump
\* sample is pressed while the previous update's sample was not; after a fire
\* clears it, it stays false while the input is still held.
C11_RequestOnlyOnPressEdge ==
    [][~state.jumpRequested /\ state'.jumpRequested => last'.edge]_vars

\* C12: after every update() isJumping and isGrounded are not both true, and
\* isJumping is true only if a jump impulse was applied in this or an earlier
\* update with no update ending grounded since.
C12_JumpingExcludesGrounded ==
    /\ ~(state.isJumping /\ state.isGrounded)
    /\ (state.isJumping => jumpAir)

\* a buffered fire in an update that ends grounded: isJumping is cleared again
C12_Witness ==
    /\ last.B /\ state.isGrounded
    /\ ~state.isJumping /\ ~jumpAir

\* C17: the velocity written by an update() with a body has
\* x = direction.x * moveSpeed, z = direction.z * moveSpeed and the vertical
\* velocity read from the body at the start of that update.
C17_MovementWrite ==
    last.ran =>
        /\ Len(calls) >= 1
        /\ calls[1] = [op |-> "setBodyVelocity",
                       v |-> [x |-> last.dir.x * moveSpeed, y |-> last.vy,
                              z |-> last.dir.z * moveSpeed]]

\* a moving update that read a falling body
C17_Witness ==
    /\ last.ran /\ last.dir.z # 0 /\ last.vy # 0
    /\ calls[1].v.y = last.vy

\* C13: an update() with a negative deltaTime is a zero-effect frame: it
\* changes no timer and writes no velocity to the body. (A step that leaves
\* the keys alone is an update.)
C13_NegativeDeltaNoEffect ==
    [][keys' = keys /\ last'.ran /\ last'.neg =>
          /\ state'.jumpCooldownTimer = state.jumpCooldownTimer
          /\ state'.coyoteTimeTimer = state.coyoteTimeTimer
          /\ state'.jumpBufferTimer = state.jumpBufferTimer
          /\ calls' = <<>>]_vars

\* C14: without a physics body update() is a no-op: CharacterState keeps
\* every field, the jump input decides nothing and no velocity write or
\* impulse goes to the physics capability.
C14_NoBodyNoOp ==
    character # "body" =>
        /\ state = InitState
        /\ calls = <<>>
        /\ ~last.ran /\ ~last.pressed

\* an update() called without a body while the jump key is down
C14_Witness ==
    /\ physics.kind = "PhysicsWorld" /\ character = "null"
    /\ noBodyCall = "pressed"

\* C20: with FallbackPhysicsWorld as the backend the controller has a body,
\* so an update() on it runs (and writes the movement velocity) instead of
\* returning early.
C20_FallbackSameContract ==
    physics.kind = "FallbackPhysicsWorld" /\ (last.ran \/ noBodyCall # "none") =>
        /\ character = "body"
        /\ last.ran
        /\ Len(calls) >= 1

\* C15: getPosition() returns {0,0,0} when the body is absent and otherwise
\* the position the physics capability reports for the body, and it changes
\* neither CharacterState nor physics state.
C15_GetPosition ==
    /\ [](posOut.called =>
            posOut.ret = IF character = "body" THEN posOut.body ELSE Origin)
    /\ [][posOut' # posOut =>
            /\ state' = state /\ calls' = calls /\ bodyPos' = bodyPos
            /\ character' = character /\ keys' = keys]_vars

\* getPosition() called with a body after the engine has moved it
C15_Witness ==
    /\ character = "body"
    /\ posOut.called /\ posOut.ret # SpawnPos /\ posOut.ret # Origin
    /\ last.ran

\* C16: the object getState() returns is independent of the controller's
\* state: assigning to it, or to its velocity vector, changes no field of
\* CharacterState, and a later update() does not change it.
C16_SnapshotIndependent ==
    [][/\ (tamperField \/ tamperVelocity => state' = state)
       /\ (updateBrief => snap' = snap)]_vars

\* C18: for every combination of movement keys held, the horizontal velocity
\* written by update() has magnitude at most moveSpeed and points in the
\* direction of the sum of the pressed axes (parallel to it, same sense;
\* zero when the axes cancel); the axes are not limited one by one.
C18_HorizontalSpeedBounded ==
    last.ran =>
        LET v == calls[1].v
            m == moveSpeed * 1000
        IN  /\ v.x * v.x + v.z * v.z <= m * m
            /\ v.x * moveSeen.z = v.z * moveSeen.x
            /\ (moveSeen.x = 0 /\ moveSeen.z = 0) => (v.x = 0 /\ v.z = 0)
            /\ (moveSeen.x # 0 \/ moveSeen.z # 0) =>
                   /\ v.x * moveSeen.x + v.z * moveSeen.z > 0
                   /\ v.x * v.x + v.z * v.z > (m - 20) * (m - 20)

\* an update with two perpendicular keys held
C18_Witness ==
    /\ last.ran
    /\ keys.forward /\ keys.left /\ ~keys.backward /\ ~keys.right
    /\ moveSeen.x # 0 /\ moveSeen.z # 0
    /\ calls[1].v.x # 0 /\ calls[1].v.z # 0

\* C19: the body's vertical velocity is bounded by a configured maximum:
\* whatever the sequence of updates, repeated jump impulses do not carry it
\* beyond the speed one impulse of jumpForce gives, the only vertical speed
\* the options configure.
C19_VerticalSpeedBounded == bodyVy <= jumpForce * 1000

\* C21: the Application with the fallback selects exactly one backend at
\* startup: when PhysicsWorld.init() succeeds the initialised PhysicsWorld
\* is used and no FallbackPhysicsWorld is constructed; when it fails the
\* FallbackPhysicsWorld is constructed and used, the character is created
\* on it, and the game loop starts all the same.
C21_OneBackendSelected ==
    app.variant = "mainFallback" /\ app.pc # "constructed" =>
        /\ app.isRunning
        /\ character = createCharacter(physics)
        /\ character # "null"
        /\ app.rapier = "ok" =>
               /\ physics = [kind |-> "PhysicsWorld", initialized |-> TRUE]
               /\ ~app.fallbackBuilt
        /\ app.rapier = "failed" =>
               /\ physics.kind = "FallbackPhysicsWorld"
               /\ app.fallbackBuilt

\* the primary backend failed, the fallback was selected and a frame ran
C21_Witness ==
    /\ app.variant = "mainFallback"
    /\ app.rapier = "failed"
    /\ app.fallbackBuilt
    /\ app.frame.ran

\* C22: every deltaTime the frame driver passes to physics.step and to
\* update() is at most 0.1 s (MaxDt ticks), however long the gap between
\* two animation frames.
C22_DeltaTimeCeiling ==
    app.frame.ran =>
        app.frame.stepDt <= MaxDt /\ app.frame.updateDt <= MaxDt

\* C23: a processed frame advances physics, calls update() with the same
\* deltaTime, reads the character position and renders, in this order and
\* each once; the position presented is the one getPosition() gives after
\* that frame's step and update.
C23_FrameOrder ==
    app.frame.ran =>
        /\ SelectSeq(app.frame.log,
                     LAMBDA op : op \in {"step", "update", "getPosition",
                                         "render"})
               = <<"step", "update", "getPosition", "render">>
        /\ app.frame.stepDt = app.frame.updateDt
        /\ app.frame.shown = PositionOf(character, bodyPos)
        /\ posOut.called /\ posOut.ret = app.frame.shown
        /\ last.ran = (character = "body")

\* a frame whose step moved the body away from the spawn position
C23_Witness ==
    /\ app.frame.ran
    /\ character = "body"
    /\ last.ran
    /\ bodyPos # SpawnPos
    /\ app.frame.shown = bodyPos

\* C24: for every combination of held movement keys getMovementDirection()
\* returns the zero vector when no axis is left (no keys, or opposing keys
\* cancelling) and otherwise a vector of unit length (1000 thousandths, to
\* the rounding of the division), and it leaves the key state as it was.
C24_DirectionUnitOrZero ==
    /\ [](last.ran =>
            LET d == last.dir
                sq == d.x * d.x + d.z * d.z
            IN  IF moveSeen.x = 0 /\ moveSeen.z = 0
                THEN d.x = 0 /\ d.z = 0
                ELSE 998 * 998 <= sq /\ sq <= 1000 * 1000)
    /\ [][updateMove => keys' = keys]_vars

\* an update under a turned camera with forward and backward cancelling
\* and one more key held
C24_Witness ==
    /\ last.ran
    /\ sceneManager.set /\ sceneManager.yaw = 1
    /\ keys.forward /\ keys.backward /\ keys.right /\ ~keys.left
    /\ moveSeen = [x |-> 707, z |-> -707]
    /\ last.dir = [x |-> 707, z |-> -707]

\* C25: after every update() in which the jump input is not pressed
\* jumpRequested is false; after any update jumpRequested is true only if
\* the jump input was pressed in that update.
C25_RequestNeedsPressedInput ==
    /\ (last.ran /\ ~last.pressed) => ~state.jumpRequested
    /\ state.jumpRequested => (last.ran /\ last.pressed)

\* an update with the key released, after a press in the air had latched
\* the request and armed the buffer, which still runs
C25_Witness ==
    /\ last.ran /\ ~last.pressed
    /\ ~state.jumpRequested
    /\ state.jumpBufferTimer > 0
    /\ reqAge > 0

\* C26: between set events each timer is non-increasing: an update with
\* deltaTime >= 0 that fires no jump leaves jumpCooldownTimer no larger
\* than before, one that sees no ground-to-air edge leaves coyoteTimeTimer
\* no larger, and one that arms no buffer leaves jumpBufferTimer no larger.
C26_TimersNonIncreasing ==
    [][(keys' = keys /\ last'.ran) =>
         LET fired == last'.A \/ last'.B
             leftGround == state.isGrounded /\ ~last'.probe
             armed == /\ last'.pressed /\ ~state.jumpRequested
                      /\ ~last'.probe /\ ~last'.coyoteLive
         IN  /\ ~fired => state'.jumpCooldownTimer <= state.jumpCooldownTimer
             /\ ~leftGround => state'.coyoteTimeTimer <= state.coyoteTimeTimer
             /\ ~armed => state'.jumpBufferTimer <= state.jumpBufferTimer]_vars

\* C27: the jump buffer is armed only in an update that sees a press edge
\* of the jump input while the character is not grounded and the coyote
\* timer is not running; a press edge while grounded or within coyote time
\* does not raise jumpBufferTimer, and no update without a press edge
\* raises it.
C27_BufferArmedOnAirbornePressEdge ==
    [][(keys' = keys /\ last'.ran) =>
         /\ state'.jumpBufferTimer > state.jumpBufferTimer =>
                /\ last'.edge
                /\ ~last'.probe /\ ~last'.coyoteLive
                /\ state'.jumpBufferTimer = options.jumpBufferTime
         /\ (last'.edge /\ (last'.probe \/ last'.coyoteLive)) =>
                state'.jumpBufferTimer <= state.jumpBufferTimer]_vars

\* C28: coyoteTimeTimer is set to coyoteTime exactly in the updates whose
\* wasGrounded (isGrounded as the previous update left it) is true and
\* whose probe reports not grounded, and is not decremented there (it ends
\* the update at coyoteTime, or at 0 when the jump fires in it); in no
\* other update does coyoteTimeTimer increase.
C28_CoyoteSetOnGroundToAirEdge ==
    [][(keys' = keys /\ last'.ran) =>
         LET leftGround == state.isGrounded /\ ~last'.probe
         IN  /\ leftGround =>
                    \/ state'.coyoteTimeTimer = options.coyoteTime
                    \/ last'.A /\ state'.coyoteTimeTimer = 0
             /\ ~leftGround =>
                    state'.coyoteTimeTimer <= state.coyoteTimeTimer]_vars

\* C29: every update() with a body makes exactly one velocity write and at
\* most one impulse on the physics capability, the write first and the
\* impulse after it, and nothing else.
C29_OneWriteThenAtMostOneImpulse ==
    last.ran =>
        /\ Len(calls) \in {1, 2}
        /\ calls[1].op = "setBodyVelocity"
        /\ \A i \in 2..Len(calls) : calls[i] = JumpImpulse
        /\ Len(calls) = 2 <=> (last.A \/ last.B)

\* an update that moves the character and fires the buffered jump
C29_Witness ==
    /\ last.ran /\ last.B
    /\ Len(calls) = 2
    /\ calls[1].op = "setBodyVelocity" /\ calls[1].v.z # 0
    /\ calls[2] = JumpImpulse

\* C30: no second jump in mid-air: once a jump has fired, by either fire
\* condition, and the ground probe has reported not grounded in every
\* update since, an update that probes not grounded applies no impulse,
\* whatever the jump input does, for every deltaTime in (0, 0.1].
C30_NoMidAirSecondJump ==
    [][(keys' = keys /\ last'.ran /\ jumpLive /\ ~last'.probe) =>
         ~(last'.A \/ last'.B)]_vars

\* C31: a pending jump buffer does not outlive a jump: once an impulse has
\* been applied since the last press edge, an update that sees no new press
\* edge does not fire the buffered jump (condition B), whatever jumpCooldown
\* and jumpBufferTime are configured; one press gives one impulse.
C31_BufferDoesNotOutliveJump ==
    [][(keys' = keys /\ last'.ran /\ pressFired /\ ~last'.edge) =>
         ~last'.B]_vars

\* C32: the controller sees the jump key only as sampled at update time:
\* isJumping() is true exactly when the most recent Space event was a
\* keydown, key events change neither this.state nor the physics calls, and
\* an update that follows a keydown and a keyup with no update in between
\* sets no jumpRequested, arms no buffer and applies no impulse of its own.
C32_KeySampledAtUpdate ==
    /\ [](LET spaceEvents == SelectSeq(spaceLog, LAMBDA e : e # "update")
          IN  spaceEvents # <<>> =>
                  isJumping = (spaceEvents[Len(spaceEvents)] = "down"))
    /\ [][/\ spaceLog' # Logged(spaceLog, "update") =>
                 (state' = state /\ calls' = calls /\ last' = last)
          /\ (/\ Len(spaceLog) >= 2
              /\ spaceLog[Len(spaceLog) - 1] = "down"
              /\ spaceLog[Len(spaceLog)] = "up"
              /\ spaceLog' = Logged(spaceLog, "update")
              /\ last'.ran) =>
                 /\ ~last'.pressed /\ ~last'.edge /\ ~last'.A
                 /\ ~state'.jumpRequested
                 /\ state'.jumpBufferTimer <= state.jumpBufferTimer
                 /\ state.jumpBufferTimer <= 0 => Len(calls') = 1]_vars

\* Space went down and up between two updates of a grounded character and
\* the second update applied no impulse
C32_Witness ==
    /\ spaceLog = <<"down", "up", "update">>
    /\ last.ran /\ last.probe /\ last.cdReady
    /\ ~state.jumpRequested
    /\ Len(calls) = 1

\* C33: the game loop processes a frame only while isRunning is true;
\* isRunning is true only after physics initialisation (primary or
\* fallback), ground, character and platform creation have completed, in
\* this order; when initialisation throws isRunning stays false and no
\* frame is ever processed.
C33_FramesOnlyWhileRunning ==
    /\ app.frame.ran => app.isRunning
    /\ app.isRunning =>
           /\ app.pc = "running"
           /\ physics.initialized
           /\ character = createCharacter(physics)
           /\ SelectSeq(app.built, LAMBDA b : b # "platforms")
                  = <<"physics", "ground", "character">>
           /\ app.variant # "mainUnclamped" =>
                  app.built[Len(app.built)] = "platforms"
    /\ app.pc = "failed" => (~app.isRunning /\ ~app.frame.ran)

\* physics initialisation failed in an Application without fallback, the
\* jump key was pressed afterwards, and no frame has run
C33_Witness ==
    /\ app.pc = "failed"
    /\ app.variant = "main"
    /\ ~app.isRunning
    /\ keys.jump
    /\ ~app.frame.ran /\ ~last.ran

\* ------------------------------------------------------- rapier-init.js
\* initRapier() calls started in one run
MaxCalls == 3

NotInitialized == "Rapier not initialized. Call initRapier() first."
FailedInit == "Failed to initialize physics engine"
BodyTypes == {"dynamic", "static", "kinematic", "ghost"}

\* everything outside rapier-init.js
core == <<physics, noBodyCall, options, state, character, keys, calls, last,
          obs, view, sceneManager, moveSeen, bodyVy, airFrames, app,
          pressFired, spaceLog>>

\* variant: the guard of lines 22, 29 and 41 left out
Guarded_open(module, out) == out

\* `if (!rapierModule) throw new Error('Rapier not initialized...')`,
\* lines 22-24, 29-31 and 41-43, then the function's own outcome
Guarded(module, out) == IF ~module THEN NotInitialized ELSE out

\* initRapier() up to its await: lines 6-11
initRapier ==
    /\ rapier.started < MaxCalls
    /\ rapier' =
         IF rapier.module
         THEN [rapier EXCEPT !.started = @ + 1,
                             !.last = [fn |-> "initRapier", out |-> "module"]]
         ELSE [rapier EXCEPT !.started = @ + 1, !.inits = @ + 1,
                             !.pending = @ + 1,
                             !.last = [fn |-> "initRapier", out |-> "pending"]]
    /\ UNCHANGED <<core, world, fallback, camera>>

\* RAPIER.init() of one pending call resolves: lines 12-14
initRapierResolved ==
    /\ rapier.pending > 0
    /\ rapier' = [rapier EXCEPT !.pending = @ - 1, !.module = TRUE,
                                !.resolved = @ + 1,
                                !.last = [fn |-> "initRapier", out |-> "module"]]
    /\ UNCHANGED <<core, world, fallback, camera>>

\* RAPIER.init() of one pending call rejects: lines 15-18
initRapierRejected ==
    /\ rapier.pending > 0
    /\ rapier' = [rapier EXCEPT !.pending = @ - 1, !.failed = @ + 1,
                                !.last = [fn |-> "initRapier", out |-> FailedInit]]
    /\ UNCHANGED <<core, world, fallback, camera>>

\* getRapier(): lines 21-26
getRapier ==
    /\ rapier' = [rapier EXCEPT !.last = [fn |-> "getRapier",
                                          out |-> Guarded(rapier.module, "module")]]
    /\ UNCHANGED <<core, world, fallback, camera>>

\* createWorld(): lines 28-38
createWorld ==
    /\ rapier' = [rapier EXCEPT !.last = [fn |-> "createWorld",
                                          out |-> Guarded(rapier.module, "world")]]
    /\ UNCHANGED <<core, world, fallback, camera>>

\* createRigidBody(world, {type}): lines 40-75
createRigidBody ==
    \E type \in BodyTypes :
        /\ rapier' = [rapier EXCEPT !.last =
                        [fn |-> "createRigidBody",
                         out |-> Guarded(rapier.module,
                                   IF type \in {"dynamic", "static", "kinematic"}
                                   THEN "body"
                                   ELSE "Invalid rigid body type")]]
        /\ UNCHANGED <<core, world, fallback, camera>>

NextRapier ==
    \/ initRapier \/ initRapierResolved \/ initRapierRejected
    \/ getRapier \/ createWorld \/ createRigidBody

SpecRapier == Init /\ [][NextRapier]_vars

\* C34: getRapier(), createWorld() and createRigidBody() throw 'Rapier not
\* initialized' exactly while no initRapier() has resolved (before any call,
\* with an init in flight, after a failed init) and never afterwards; a
\* failed init rejects with 'Failed to initialize physics engine' and
\* leaves rapierModule as it was.
C34_GuardedUntilInitResolves ==
    /\ [](/\ rapier.last.fn \in {"getRapier", "createWorld", "createRigidBody"} =>
                ((rapier.last.out = NotInitialized) <=> (rapier.resolved = 0))
          /\ rapier.module <=> (rapier.resolved > 0))
    /\ [][rapier'.failed > rapier.failed =>
              /\ rapier'.last = [fn |-> "initRapier", out |-> FailedInit]
              /\ rapier'.module = rapier.module]_vars

\* createWorld() threw after one init failed and with another in flight
C34_Witness ==
    /\ rapier.failed > 0
    /\ rapier.pending > 0
    /\ rapier.resolved = 0
    /\ rapier.last = [fn |-> "createWorld", out |-> NotInitialized]

\* C35: RAPIER.init() is invoked at most once for any number of
\* initRapier() calls, overlapping calls included (stated here for the runs
\* in which no init has failed).
C35_InitInvokedOnce ==
    rapier.failed = 0 => rapier.inits <= 1

\* ------------------------------------------------ PhysicsWorld (part_002)
\* calls made to one PhysicsWorld in one run
MaxWorldCalls == 4

WorldCalls ==
    Len(world.bodies) + world.engine.steps + world.engine.linvels
        + world.engine.impulses + world.engine.rays

\* the bodies a caller can hold: null, or one a create call returned
BodiesHeld == IF world.bodies = <<>> THEN {"null"} ELSE {"null", "body"}

\* variant: the `if (!this.initialized) return null` of lines 35-38 left out
Created_unguarded(w, type) ==
    [w EXCEPT !.bodies = Append(@, type),
              !.last = [fn |-> type, body |-> "none", out |-> "handle"]]

\* createGround, createCharacter, createPlatform: lines 34-53, 62-85,
\* 97-118: null before init, else the body is stored in this.bodies
Created(w, type) ==
    IF ~w.initialized
    THEN [w EXCEPT !.last = [fn |-> type, body |-> "none", out |-> "null"]]
    ELSE [w EXCEPT !.bodies = Append(@, type),
                   !.last = [fn |-> type, body |-> "none", out |-> "handle"]]

rest_world == <<core, rapier, fallback, camera>>

\* init() up to `await RAPIER.init()`: lines 18-20
PhysicsWorld_init ==
    /\ ~world.pending /\ ~world.initialized
    /\ world' = [world EXCEPT !.pending = TRUE,
                              !.last = [fn |-> "init", body |-> "none",
                                        out |-> "pending"]]
    /\ UNCHANGED rest_world

\* the await resolves: lines 23-24
PhysicsWorld_initResolved ==
    /\ world.pending
    /\ world' = [world EXCEPT !.pending = FALSE, !.initialized = TRUE,
                              !.last = [fn |-> "init", body |-> "none",
                                        out |-> "resolved"]]
    /\ UNCHANGED rest_world

\* the await rejects: init() rejects at line 20
PhysicsWorld_initRejected ==
    /\ world.pending
    /\ world' = [world EXCEPT !.pending = FALSE,
                              !.last = [fn |-> "init", body |-> "none",
                                        out |-> "rejected"]]
    /\ UNCHANGED rest_world

createGround ==
    /\ WorldCalls < MaxWorldCalls
    /\ world' = Created(world, "ground")
    /\ UNCHANGED rest_world

PhysicsWorld_createCharacter ==
    /\ WorldCalls < MaxWorldCalls
    /\ world' = Created(world, "character")
    /\ UNCHANGED rest_world

createPlatform ==
    /\ WorldCalls < MaxWorldCalls
    /\ world' = Created(world, "platform")
    /\ UNCHANGED rest_world

\* isGrounded(body): lines 125-154; the ray's hit is the engine's answer
PhysicsWorld_isGrounded ==
    \E body \in BodiesHeld, hit \in BOOLEAN :
        /\ WorldCalls < MaxWorldCalls
        /\ world' =
             IF ~world.initialized \/ body = "null"
             THEN [world EXCEPT !.last = [fn |-> "isGrounded", body |-> body,
                                          out |-> "false"]]
             ELSE [world EXCEPT !.engine.rays = @ + 1,
                                !.last = [fn |-> "isGrounded", body |-> body,
                                          out |-> IF hit THEN "true" ELSE "false"]]
        /\ UNCHANGED rest_world

\* step(deltaTime): lines 158-165
PhysicsWorld_step ==
    /\ WorldCalls < MaxWorldCalls
    /\ world' =
         IF ~world.initialized
         THEN [world EXCEPT !.last = [fn |-> "step", body |-> "none",
                                      out |-> "returned"]]
         ELSE [world EXCEPT !.engine.steps = @ + 1,
                            !.last = [fn |-> "step", body |-> "none",
                                      out |-> "stepped"]]
    /\ UNCHANGED rest_world

\* getBodyPosition(body): lines 170-175
PhysicsWorld_getBodyPosition ==
    \E body \in BodiesHeld :
        /\ world' = [world EXCEPT !.last =
                        [fn |-> "getBodyPosition", body |-> body,
                         out |-> IF body = "null" THEN "origin"
                                 ELSE "translation"]]
        /\ UNCHANGED rest_world

\* setBodyVelocity(body, velocity): lines 182-186
setBodyVelocity ==
    \E body \in BodiesHeld :
        /\ WorldCalls < MaxWorldCalls
        /\ world' =
             IF body = "null"
             THEN [world EXCEPT !.last = [fn |-> "setBodyVelocity",
                                          body |-> body, out |-> "returned"]]
             ELSE [world EXCEPT !.engine.linvels = @ + 1,
                                !.last = [fn |-> "setBodyVelocity",
                                          body |-> body, out |-> "set"]]
        /\ UNCHANGED rest_world

\* applyImpulse(body, impulse): lines 193-197
PhysicsWorld_applyImpulse ==
    \E body \in BodiesHeld :
        /\ WorldCalls < MaxWorldCalls
        /\ world' =
             IF body = "null"
             THEN [world EXCEPT !.last = [fn |-> "applyImpulse",
                                          body |-> body, out |-> "returned"]]
             ELSE [world EXCEPT !.engine.impulses = @ + 1,
                                !.last = [fn |-> "applyImpulse",
                                          body |-> body, out |-> "applied"]]
        /\ UNCHANGED rest_world

NextWorld ==
    \/ PhysicsWorld_init \/ PhysicsWorld_initResolved
    \/ PhysicsWorld_initRejected
    \/ createGround \/ PhysicsWorld_createCharacter \/ createPlatform
    \/ PhysicsWorld_isGrounded \/ PhysicsWorld_step
    \/ PhysicsWorld_getBodyPosition \/ setBodyVelocity
    \/ PhysicsWorld_applyImpulse

SpecWorld == Init /\ [][NextWorld]_vars

\* C36: before PhysicsWorld.init() has completed the three create methods
\* return null and register no body, isGrounded returns false and step
\* does nothing; with a null body getBodyPosition returns the origin and
\* setBodyVelocity and applyImpulse change nothing.
C36_InertBeforeInit ==
    /\ [](/\ ~world.initialized =>
                /\ world.bodies = <<>>
                /\ world.engine = NewWorld.engine
                /\ world.last.fn \in {"ground", "character", "platform"} =>
                       world.last.out = "null"
                /\ world.last.fn = "isGrounded" => world.last.out = "false"
                /\ world.last.fn = "step" => world.last.out = "returned"
          /\ (world.last.fn = "getBodyPosition" /\ world.last.body = "null") =>
                world.last.out = "origin")
    /\ [][(/\ world'.last.fn \in {"setBodyVelocity", "applyImpulse"}
           /\ world'.last.body = "null") =>
              /\ world'.engine = world.engine
              /\ world'.bodies = world.bodies
              /\ world'.initialized = world.initialized]_vars

\* createPlatform returned null while init() was still in flight
C36_Witness ==
    /\ world.pending /\ ~world.initialized
    /\ world.last = [fn |-> "platform", body |-> "none", out |-> "null"]

\* ---------------------------------------- FallbackPhysicsWorld (part_005)
\* calls made to one FallbackPhysicsWorld in one run
MaxFallbackCalls == 4

\* this.gravity = -9.81 (line 3) over one tick, in units of velocity
fallbackGravity == -981

\* the sizes and places the objects are created with, in units of position;
\* every object is centred on the character's x and z
Heights == {PosUnit \div 2, PosUnit}
PlatformYs == {PosUnit \div 2, 2 * PosUnit}
platformHeight == PosUnit \div 2
groundHeight == PosUnit \div 10
VelocitiesY == {-46 * VelUnit, -40 * VelUnit, 0}
ForcesY == {15 * VelUnit}

Ground == [type |-> "ground", y |-> 0]
Character == [type |-> "character", y |-> 0]

HasCharacter(w) == \E i \in 1..Len(w.objects) : w.objects[i] = Character

\* Map.set: a new key goes last, an existing key keeps its place
MapSet(objects, o) ==
    IF \E i \in 1..Len(objects) : objects[i] = o THEN objects
    ELSE Append(objects, o)

Abs(n) == IF n < 0 THEN -n ELSE n

\* checkCollision and resolveCollision for one object: lines 72-77, 93-142;
\* c is the character's y, vy and isGrounded, h its size.height. With x and
\* z aligned the y axis is the platform's axis of least penetration
Collide(c, o, h) ==
    IF o.type = "ground"
    THEN IF c.y - h \div 2 <= o.y + groundHeight \div 2
         THEN [y |-> o.y + groundHeight \div 2 + h \div 2,
               vy |-> IF c.vy < 0 THEN 0 ELSE c.vy, g |-> TRUE]
         ELSE c
    ELSE IF o.type = "platform"
    THEN LET dy == c.y - o.y
             penetrationY == platformHeight \div 2 + h \div 2 - Abs(dy)
         IN  IF Abs(dy) < platformHeight \div 2 + h \div 2
             THEN [y |-> IF dy > 0 THEN c.y + penetrationY
                         ELSE c.y - penetrationY,
                   vy |-> 0, g |-> TRUE]
             ELSE c
    ELSE c

\* the loop over this.objects in insertion order: lines 69-78
RECURSIVE Sweep(_, _, _)
Sweep(c, objects, h) ==
    IF objects = <<>> THEN c
    ELSE Sweep(Collide(c, Head(objects), h), Tail(objects), h)

\* variant: lines 85-90 left out
FallbackStep_noFloor(w, dt) ==
    IF ~HasCharacter(w)
    THEN [w EXCEPT !.made = @ + 1, !.clamped = FALSE, !.last = "stepNone"]
    ELSE
    LET c == Sweep([y |-> w.y + w.vy * dt, vy |-> w.vy + fallbackGravity * dt,
                    g |-> FALSE], w.objects, w.height)
    IN  [w EXCEPT !.y = c.y, !.vy = c.vy, !.isGrounded = c.g,
                  !.clamped = FALSE, !.made = @ + 1, !.last = "step"]

\* step(deltaTime), lines 52-91, for a character whose x, z and horizontal
\* velocity are 0 (lines 57, 59, 82 and 83 then leave them 0)
FallbackStep(w, dt) ==
    IF ~HasCharacter(w)
    THEN [w EXCEPT !.made = @ + 1, !.clamped = FALSE, !.last = "stepNone"]
    ELSE LET c == Sweep([y |-> w.y + w.vy * dt,
                         vy |-> w.vy + fallbackGravity * dt,
                         g |-> FALSE], w.objects, w.height)
             floor == c.y < w.height \div 2
         IN  [w EXCEPT !.y = IF floor THEN w.height \div 2 ELSE c.y,
                       !.vy = IF floor THEN 0 ELSE c.vy,
                       !.isGrounded = IF floor THEN TRUE ELSE c.g,
                       !.clamped = floor,
                       !.made = @ + 1, !.last = "step"]

rest_fallback == <<core, rapier, world, camera>>

\* createGround(size): lines 13-23
Fallback_createGround ==
    /\ fallback' = [fallback EXCEPT !.objects = MapSet(@, Ground),
                                    !.last = "createGround"]
    /\ UNCHANGED rest_fallback

\* createCharacter(radius, height): lines 25-37
Fallback_createCharacter ==
    \E h \in Heights :
        /\ fallback.made < MaxFallbackCalls
        /\ fallback' = [fallback EXCEPT !.objects = MapSet(@, Character),
                                        !.y = 5 * PosUnit, !.vy = 0,
                                        !.height = h, !.isGrounded = FALSE,
                                        !.made = @ + 1,
                                        !.last = "createCharacter"]
        /\ UNCHANGED rest_fallback

\* createPlatform(x, y, z, width, height, depth): lines 39-50
Fallback_createPlatform ==
    \E py \in PlatformYs :
        /\ fallback' = [fallback EXCEPT
                          !.objects = MapSet(@, [type |-> "platform", y |-> py]),
                          !.last = "createPlatform"]
        /\ UNCHANGED rest_fallback

\* step(deltaTime) with the deltaTime the game loop passes
Fallback_step ==
    \E dt \in 0..MaxDt :
        /\ fallback.made < MaxFallbackCalls
        /\ fallback' = FallbackStep(fallback, dt)
        /\ UNCHANGED rest_fallback

\* applyCharacterForce(force): lines 149-156
applyCharacterForce ==
    \E fy \in ForcesY :
        /\ fallback.made < MaxFallbackCalls
        /\ fallback' = [fallback EXCEPT
                          !.vy = IF HasCharacter(fallback) THEN @ + fy ELSE @,
                          !.made = @ + 1, !.last = "applyCharacterForce"]
        /\ UNCHANGED rest_fallback

\* setCharacterVelocity(velocity): lines 158-163
setCharacterVelocity ==
    \E v \in VelocitiesY :
        /\ fallback.made < MaxFallbackCalls
        /\ fallback' = [fallback EXCEPT
                          !.vy = IF HasCharacter(fallback) THEN v ELSE @,
                          !.made = @ + 1, !.last = "setCharacterVelocity"]
        /\ UNCHANGED rest_fallback

NextFallback ==
    \/ Fallback_createGround \/ Fallback_createCharacter
    \/ Fallback_createPlatform \/ Fallback_step
    \/ applyCharacterForce \/ setCharacterVelocity

SpecFallback == Init /\ [][NextFallback]_vars

\* C37: after every FallbackPhysicsWorld.step with a character present the
\* character is not below the floor, position.y >= size.height / 2, and
\* when the step clamped the position to the floor velocity.y = 0 and
\* isGrounded = true; with no character step changes nothing.
C37_NeverBelowFloor ==
    /\ [](fallback.last = "step" =>
             /\ fallback.y >= fallback.height \div 2
             /\ fallback.clamped =>
                    /\ fallback.y = fallback.height \div 2
                    /\ fallback.vy = 0
                    /\ fallback.isGrounded)
    /\ [][fallback'.last = "stepNone" =>
              /\ fallback'.objects = fallback.objects
              /\ fallback'.y = fallback.y /\ fallback'.vy = fallback.vy
              /\ fallback'.height = fallback.height
              /\ fallback'.isGrounded = fallback.isGrounded]_vars

\* a step pushed the character below the floor and clamped it back
C37_Witness ==
    /\ fallback.last = "step"
    /\ fallback.clamped
    /\ fallback.y = fallback.height \div 2
    /\ fallback.isGrounded

\* ----------------------------------- SceneManager.setupMouseControls
\* mouse events in one run
MaxEvents == 4

\* where the pointer can be, in pixels, on each axis
Points == {0, 100, 200}

\* cameraSettings (scene.js lines 24-31) in thousandths of a radian:
\* rotationSpeed 0.002 per pixel, minPolarAngle 0.1, maxPolarAngle pi/2 - 0.1
rotationSpeed == 2
minPolarAngle == 100
maxPolarAngle == 1471

Max(a, b) == IF a > b THEN a ELSE b

rest_camera == <<core, rapier, world, fallback>>

\* the mousedown listener: lines 77-79
mousedown ==
    /\ camera.events < MaxEvents
    /\ camera' = [camera EXCEPT !.isDown = TRUE, !.events = @ + 1]
    /\ UNCHANGED rest_camera

\* the mouseup listener: lines 82-84
mouseup ==
    /\ camera.events < MaxEvents
    /\ camera' = [camera EXCEPT !.isDown = FALSE, !.events = @ + 1]
    /\ UNCHANGED rest_camera

\* the first mousemove listener: lines 87-110
Dragged(c, clientX, clientY) ==
    IF ~c.isDown THEN c
    ELSE [c EXCEPT
            !.targetYaw = @ + (clientX - c.x) * rotationSpeed,
            !.targetPitch = Max(minPolarAngle, Min(maxPolarAngle,
                                @ + (clientY - c.y) * rotationSpeed)),
            !.x = clientX, !.y = clientY]

\* the second mousemove listener, registered with {once: true}: lines
\* 113-116
StoredOnce(c, clientX, clientY) ==
    IF c.first THEN [c EXCEPT !.x = clientX, !.y = clientY, !.first = FALSE]
    ELSE c

\* a mousemove event: the pointer goes from (px, py) to another point and
\* the two listeners run in the order of their registration; heldX sums
\* the horizontal displacement made with the button down
mousemove ==
    \E clientX \in Points, clientY \in Points :
        /\ camera.events < MaxEvents
        /\ <<clientX, clientY>> # <<camera.px, camera.py>>
        /\ camera' =
             [StoredOnce(Dragged(camera, clientX, clientY), clientX, clientY)
                EXCEPT !.px = clientX, !.py = clientY,
                       !.heldX = IF camera.isDown
                                 THEN @ + (clientX - camera.px) ELSE @,
                       !.events = @ + 1]
        /\ UNCHANGED rest_camera

NextCamera == mousedown \/ mouseup \/ mousemove

SpecCamera == Init /\ [][NextCamera]_vars

\* C38: targetYaw changes only by pointer displacement made while a mouse
\* button is held: it is rotationSpeed times the horizontal displacement
\* summed over the moves made with the button down, movement made with no
\* button down contributing nothing, the first move after the next
\* mousedown included.
C38_YawFromHeldDragOnly ==
    camera.targetYaw = rotationSpeed * camera.heldX

\* ------------------------------- update called again and again, dt > 0
\* update(input, deltaTime) with deltaTime in (0, 0.1], the character
\* standing still with no movement key held
updateTicking ==
    \E dt \in 1..MaxDt, probe \in BOOLEAN :
        /\ IF character = "body"
           THEN UpdateBody(dt, probe, [x |-> 0, z |-> 0],
                           [x |-> 0, y |-> 0, z |-> 0])
           ELSE UpdateNoBody /\ UNCHANGED obs
        /\ UNCHANGED <<moveSeen, bodyVy, airFrames, pose, app, aux>>

NextTick == onKeyDown \/ onKeyUp \/ updateTicking

SpecTick == Init /\ [][NextTick]_vars

\* the frame drivers call update() every animation frame; once time passes
\* between frames deltaTime is positive, at least one tick
SpecTickFair == SpecTick /\ WF_vars(updateTicking)

\* the last update() set the timer anew
CooldownSet == last.ran /\ (last.A \/ last.B)
CoyoteSet == last.ran /\ state.wasGrounded /\ ~last.probe
BufferSet ==
    /\ last.ran /\ last.pressed /\ ~last.probe /\ ~last.coyoteLive
    /\ state.jumpBufferTimer = options.jumpBufferTime

\* C39: with update() called again and again with deltaTime of at least one
\* tick, each of jumpCooldownTimer, coyoteTimeTimer and jumpBufferTimer
\* that is running eventually is <= 0 or has been set anew, and once the
\* cooldown has run out a fresh press probed grounded fires.
C39_TimersExpire ==
    /\ (state.jumpCooldownTimer > 0 /\ ~CooldownSet)
           ~> (state.jumpCooldownTimer <= 0 \/ CooldownSet)
    /\ (state.coyoteTimeTimer > 0 /\ ~CoyoteSet)
           ~> (state.coyoteTimeTimer <= 0 \/ CoyoteSet)
    /\ (state.jumpBufferTimer > 0 /\ ~BufferSet)
           ~> (state.jumpBufferTimer <= 0 \/ BufferSet)
    /\ [][(/\ keys' = keys /\ last'.ran
           /\ last'.edge /\ last'.probe /\ last'.cdReady) => last'.A]_vars

\* a jump fired, its cooldown ran out, and a fresh press probed grounded
\* fired again
C39_Witness ==
    /\ options.jumpCooldown > 0
    /\ last.ran /\ last.edge /\ last.probe /\ last.A
    /\ fireGap = options.jumpCooldown
    /\ state.jumpCooldownTimer = options.jumpCooldown

====
